---- MODULE Spec2Model ----
(***************************************************************************)
(* rl::geom::Size (impeller/geometry/Size.h): a width/height pair of       *)
(* doubles with scale, compare, add, subtract, unionWith, isZero,          *)
(* isPositive, toString and fromString.                                    *)
(*                                                                         *)
(* A double is modelled as a binary IEEE-754 floating-point number of a    *)
(* reduced format: one sign bit, a biased exponent field 0..ExpInf and     *)
(* MantBits fraction bits.  The format keeps every class of value of the   *)
(* 64-bit format: signed zeros, subnormals, normals, the two infinities    *)
(* and NaN, with round-to-nearest-even arithmetic, overflow to infinity    *)
(* and gradual underflow.                                                  *)
(***************************************************************************)
EXTENDS Integers, Sequences, FiniteSets

\* Number of fraction bits of the format (52 for a double).
MantBits == 1

\* The biased exponent reserved for infinity and NaN (2047 for a double).
ExpInf == 3

RECURSIVE Pow2(_)
Pow2(n) == IF n = 0 THEN 1 ELSE 2 * Pow2(n - 1)

RECURSIVE Pow10(_)
Pow10(n) == IF n = 0 THEN 1 ELSE 10 * Pow10(n - 1)

Hidden == Pow2(MantBits)

\* Exponent bias: 1.0 has the biased exponent Bias.
Bias == (ExpInf + 1) \div 2

\* Magnitudes are counted in units of the smallest subnormal, 2^-UnitExp.
UnitExp == Bias - 1 + MantBits

UnitDen == Pow2(UnitExp)

\* Bit patterns (sign bit cleared): 0 .. InfPat-1 finite, InfPat infinity.
InfPat == ExpInf * Hidden

QNaN == InfPat + Pow2(MantBits - 1)

SignBit == (ExpInf + 1) * Hidden

Pats == 0 .. InfPat

Double == Pats \cup {SignBit + p : p \in Pats} \cup {QNaN}

IsNaN(x) == x = QNaN

Neg(x) == x # QNaN /\ x >= SignBit

Pat(x) == IF x >= SignBit THEN x - SignBit ELSE x

IsInf(x) == x # QNaN /\ Pat(x) = InfPat

IsFinite(x) == x # QNaN /\ Pat(x) < InfPat

MkDouble(neg, p) == IF neg THEN SignBit + p ELSE p

\* The magnitude of the pattern p, in units.  PatVal[InfPat] is the first
\* power of two beyond the largest finite value.
PatVal == [p \in Pats |->
             IF p \div Hidden = 0
             THEN p % Hidden
             ELSE (Hidden + (p % Hidden)) * Pow2((p \div Hidden) - 1)]

Mag(x) == PatVal[Pat(x)]

\* The signed value of a finite x, in units (both zeros give 0).
SVal(x) == IF Neg(x) THEN 0 - Mag(x) ELSE Mag(x)

\* Round the non-negative rational num/den (in units) to the nearest
\* pattern, ties to the even pattern; InfPat is overflow.
RoundPat(num, den) ==
  IF num >= PatVal[InfPat] * den THEN InfPat
  ELSE LET lo == CHOOSE p \in 0 .. InfPat - 1 :
                    PatVal[p] * den <= num /\ num < PatVal[p + 1] * den
           mid == (PatVal[lo] + PatVal[lo + 1]) * den
       IN  IF 2 * num < mid THEN lo
           ELSE IF 2 * num > mid THEN lo + 1
           ELSE IF lo % 2 = 0 THEN lo ELSE lo + 1

\* -x
FNeg(x) == IF IsNaN(x) THEN QNaN ELSE MkDouble(~Neg(x), Pat(x))

\* x + y, computed
AddDouble(x, y) ==
  IF IsNaN(x) \/ IsNaN(y) THEN QNaN
  ELSE IF IsInf(x) /\ IsInf(y) THEN (IF Neg(x) = Neg(y) THEN x ELSE QNaN)
  ELSE IF IsInf(x) THEN x
  ELSE IF IsInf(y) THEN y
  ELSE LET n == SVal(x) + SVal(y)
       IN  IF n = 0 THEN MkDouble(Neg(x) /\ Neg(y), 0)
           ELSE IF n < 0 THEN MkDouble(TRUE, RoundPat(0 - n, 1))
           ELSE MkDouble(FALSE, RoundPat(n, 1))

AddTable == [x \in Double |-> [y \in Double |-> AddDouble(x, y)]]

\* x + y
FAdd(x, y) == AddTable[x][y]

\* x - y
FSub(x, y) == FAdd(x, FNeg(y))

\* x * y, computed
MulDouble(x, y) ==
  IF IsNaN(x) \/ IsNaN(y) THEN QNaN
  ELSE IF (IsInf(x) /\ Mag(y) = 0) \/ (IsInf(y) /\ Mag(x) = 0) THEN QNaN
  ELSE IF IsInf(x) \/ IsInf(y) THEN MkDouble(Neg(x) # Neg(y), InfPat)
  ELSE MkDouble(Neg(x) # Neg(y), RoundPat(Mag(x) * Mag(y), UnitDen))

MulTable == [x \in Double |-> [y \in Double |-> MulDouble(x, y)]]

\* x * y
FMul(x, y) == MulTable[x][y]

\* x == y
FEq(x, y) == ~IsNaN(x) /\ ~IsNaN(y) /\ (x = y \/ (Pat(x) = 0 /\ Pat(y) = 0))

\* x != y
FNe(x, y) == IsNaN(x) \/ IsNaN(y) \/ (x # y /\ (Pat(x) # 0 \/ Pat(y) # 0))

\* x < y
FLt(x, y) ==
  /\ ~IsNaN(x)
  /\ ~IsNaN(y)
  /\ (IF Neg(x) THEN 0 - Pat(x) ELSE Pat(x)) < (IF Neg(y) THEN 0 - Pat(y) ELSE Pat(y))

\* x > y
FGt(x, y) == FLt(y, x)

\* std::max(x, y): (x < y) ? y : x
StdMax(x, y) == IF FLt(x, y) THEN y ELSE x

\* ---- struct Size ----

Size(w, h) == [width |-> w, height |-> h]

Sizes == [width : Double, height : Double]

\* Size()
DefaultSize == Size(0, 0)

\* operator* with the width scaled into both fields.
OpMulWidthTwice(s, scale) == Size(FMul(s.width, scale), FMul(s.width, scale))

\* Size operator*(double scale) const
OpMul(s, scale) == Size(FMul(s.width, scale), FMul(s.height, scale))

\* operator== comparing s.height with the receiver's width.
OpEqCrossed(this, s) == FEq(s.width, this.width) /\ FEq(s.height, this.width)

\* bool operator==(const Size& s) const
OpEq(this, s) == FEq(s.width, this.width) /\ FEq(s.height, this.height)

\* operator!= with && for ||.
OpNeBoth(this, s) == FNe(s.width, this.width) /\ FNe(s.height, this.height)

\* bool operator!=(const Size& s) const
OpNe(this, s) == FNe(s.width, this.width) \/ FNe(s.height, this.height)

\* operator+ that leaves the height out of the sum.
OpAddWidthOnly(this, s) == Size(FAdd(this.width, s.width), this.height)

\* Size operator+(const Size& s) const
OpAdd(this, s) == Size(FAdd(this.width, s.width), FAdd(this.height, s.height))

\* Size operator-(const Size& s) const
OpSub(this, s) == Size(FSub(this.width, s.width), FSub(this.height, s.height))

\* unionWith taking std::min on the height.
unionWithMinHeight(this, o) ==
  Size(StdMax(this.width, o.width),
       IF FLt(o.height, this.height) THEN o.height ELSE this.height)

\* unionWith keeping the receiver's height.
unionWithOwnHeight(this, o) == Size(StdMax(this.width, o.width), this.height)

\* unionWith reading the receiver's width on both axes.
unionWithWidthTwice(this, o) ==
  Size(StdMax(this.width, o.width), StdMax(this.width, o.height))

\* Size unionWith(const Size& o) const
unionWith(this, o) == Size(StdMax(this.width, o.width), StdMax(this.height, o.height))

\* isZero asking for both fields to be zero.
isZeroBoth(this) == FEq(this.width, 0) /\ FEq(this.height, 0)

\* bool isZero() const
isZero(this) == FEq(FMul(this.width, this.height), 0)

\* isPositive with || for &&.
isPositiveEither(this) == FGt(this.width, 0) \/ FGt(this.height, 0)

\* bool isPositive() const
isPositive(this) == FGt(this.width, 0) /\ FGt(this.height, 0)

\* ---- text form: "<width>x<height>" ----

Digits == <<"0", "1", "2", "3", "4", "5", "6", "7", "8", "9">>

IsDigit(c) == \E i \in 1 .. 10 : Digits[i] = c

DigitVal(c) == (CHOOSE i \in 1 .. 10 : Digits[i] = c) - 1

\* The decimal digits of the natural number n.
RECURSIVE DecInt(_)
DecInt(n) == IF n < 10 THEN <<Digits[n + 1]>>
             ELSE Append(DecInt(n \div 10), Digits[(n % 10) + 1])

\* The decimal digits of the fraction f/den, 0 < f < den, den a power of two.
RECURSIVE DecFrac(_, _)
DecFrac(f, den) == IF f = 0 THEN <<>>
                   ELSE <<Digits[((f * 10) \div den) + 1]>> \o DecFrac((f * 10) % den, den)

\* One scalar in fixed decimal notation, fractional digits only when needed.
FormatDouble(x) ==
  IF IsNaN(x) THEN <<"n", "a", "n">>
  ELSE (IF Neg(x) THEN <<"-">> ELSE <<>>) \o
       (IF IsInf(x) THEN <<"i", "n", "f">>
        ELSE DecInt(Mag(x) \div UnitDen) \o
             (IF Mag(x) % UnitDen = 0 THEN <<>>
              ELSE <<".">> \o DecFrac(Mag(x) % UnitDen, UnitDen)))

\* std::string toString() const
toString(this) == FormatDouble(this.width) \o <<"x">> \o FormatDouble(this.height)

AllDigits(t) == Len(t) > 0 /\ \A i \in 1 .. Len(t) : IsDigit(t[i])

RECURSIVE DigitsValue(_)
DigitsValue(t) == IF t = <<>> THEN 0
                  ELSE DigitsValue(SubSeq(t, 1, Len(t) - 1)) * 10 + DigitVal(t[Len(t)])

FirstIndex(t, c) ==
  IF \E i \in 1 .. Len(t) : t[i] = c
  THEN CHOOSE i \in 1 .. Len(t) : t[i] = c /\ \A j \in 1 .. i - 1 : t[j] # c
  ELSE 0

\* One numeral: [-]digits[.digits], read to the nearest finite double.
ParseDouble(t) ==
  LET neg  == Len(t) > 0 /\ t[1] = "-"
      body == IF neg THEN Tail(t) ELSE t
      dot  == FirstIndex(body, ".")
      ip   == IF dot = 0 THEN body ELSE SubSeq(body, 1, dot - 1)
      fp   == IF dot = 0 THEN <<>> ELSE SubSeq(body, dot + 1, Len(body))
      ok   == AllDigits(ip) /\ (dot = 0 \/ AllDigits(fp))
      p    == RoundPat((DigitsValue(ip) * Pow10(Len(fp)) + DigitsValue(fp)) * UnitDen,
                       Pow10(Len(fp)))
  IN  IF ok /\ p < InfPat
      THEN [ok |-> TRUE, val |-> MkDouble(neg, p)]
      ELSE [ok |-> FALSE, val |-> 0]

\* fromString that stores each numeral as it is read and stops at the error.
fromStringPartial(this, str) ==
  LET sep == FirstIndex(str, "x")
      w   == ParseDouble(SubSeq(str, 1, sep - 1))
      h   == ParseDouble(SubSeq(str, sep + 1, Len(str)))
  IN  IF sep # 0 /\ w.ok /\ h.ok
      THEN [size |-> Size(w.val, h.val), err |-> "none"]
      ELSE [size |-> Size(IF sep # 0 /\ w.ok THEN w.val ELSE this.width, this.height),
            err |-> "ParseError"]

\* void fromString(const std::string& str): the receiver afterwards and the
\* error raised.
fromString(this, str) ==
  LET sep == FirstIndex(str, "x")
      w   == ParseDouble(SubSeq(str, 1, sep - 1))
      h   == ParseDouble(SubSeq(str, sep + 1, Len(str)))
  IN  IF sep # 0 /\ w.ok /\ h.ok
      THEN [size |-> Size(w.val, h.val), err |-> "none"]
      ELSE [size |-> DefaultSize, err |-> "ParseError"]

\* Texts handed to fromString besides those toString produced.
InputStrings ==
  { <<"a", "b", "c">>,
    <<"1", "0", "0">>,
    <<"1", "0", "0", "x", "a", "b", "c">>,
    <<>>,
    <<"x">>,
    <<"1", "x">>,
    <<"x", "1">>,
    <<"1", "x", "1", "x", "1">>,
    <<"1", ".", "x", "1">>,
    <<"1", "x", "-">>,
    <<"1", " ", "x", "1">>,
    <<"1", "x", "1", ".", "5", ".", "5">>,
    <<"1", "x", "0", ".", "5">>,
    <<"-", "1", "x", "1", ".", "5">>,
    <<"0", ".", "3", "x", "0", ".", "7", "0">>,
    <<"1", "0", "0", "x", "1">> }

\* ---- the caller: construct a Size, then apply operations ----

VARIABLES
  this,    \* the Size the operations are invoked on
  prev,    \* the value of this when the last operation was entered
  arg,     \* the Size passed as s / o to the last binary operation
  scales,  \* the scalars passed to operator* so far
  ret,     \* the Size returned by value by the last operation
  flag,    \* the bool returned by the last predicate or comparison
  str,     \* the text returned by toString or passed to fromString
  err,     \* the error raised by the last operation
  op       \* the last operation

vars == <<this, prev, arg, scales, ret, flag, str, err, op>>

\* Size(double width, double height)
Init ==
  /\ this \in Sizes
  /\ prev = this
  /\ arg = DefaultSize
  /\ scales = <<>>
  /\ ret = DefaultSize
  /\ flag = FALSE
  /\ str = <<>>
  /\ err = "none"
  /\ op = "construct"

\* this * k
Scale ==
  /\ op = "construct"
  /\ \E k \in Double :
     /\ ret' = OpMul(this, k)
     /\ scales' = <<k>>
     /\ prev' = this
     /\ op' = "scale"
     /\ UNCHANGED <<this, arg, flag, str, err>>

\* (this * k1) * k
ScaleAgain ==
  /\ op = "scale"
  /\ \E k \in Double :
     /\ ret' = OpMul(ret, k)
     /\ scales' = Append(scales, k)
     /\ prev' = this
     /\ op' = "scale2"
     /\ UNCHANGED <<this, arg, flag, str, err>>

\* this == o
Equals ==
  /\ op = "construct"
  /\ \E o \in Sizes :
     /\ flag' = OpEq(this, o)
     /\ arg' = o
     /\ prev' = this
     /\ op' = "eq"
     /\ UNCHANGED <<this, scales, ret, str, err>>

\* this != o
NotEquals ==
  /\ op = "construct"
  /\ \E o \in Sizes :
     /\ flag' = OpNe(this, o)
     /\ arg' = o
     /\ prev' = this
     /\ op' = "ne"
     /\ UNCHANGED <<this, scales, ret, str, err>>

\* this + o
Add ==
  /\ op = "construct"
  /\ \E o \in Sizes :
     /\ ret' = OpAdd(this, o)
     /\ arg' = o
     /\ prev' = this
     /\ op' = "add"
     /\ UNCHANGED <<this, scales, flag, str, err>>

\* this - o
Sub ==
  /\ op = "construct"
  /\ \E o \in Sizes :
     /\ ret' = OpSub(this, o)
     /\ arg' = o
     /\ prev' = this
     /\ op' = "sub"
     /\ UNCHANGED <<this, scales, flag, str, err>>

\* (this + o) - o
SubBack ==
  /\ op = "add"
  /\ ret' = OpSub(ret, arg)
  /\ prev' = this
  /\ op' = "addsub"
  /\ UNCHANGED <<this, arg, scales, flag, str, err>>

\* this.unionWith(o)
Union ==
  /\ op = "construct"
  /\ \E o \in Sizes :
     /\ ret' = unionWith(this, o)
     /\ arg' = o
     /\ prev' = this
     /\ op' = "unionWith"
     /\ UNCHANGED <<this, scales, flag, str, err>>

\* this.isZero()
IsZero ==
  /\ op = "construct"
  /\ flag' = isZero(this)
  /\ prev' = this
  /\ op' = "isZero"
  /\ UNCHANGED <<this, arg, scales, ret, str, err>>

\* this.isPositive()
IsPositive ==
  /\ op = "construct"
  /\ flag' = isPositive(this)
  /\ prev' = this
  /\ op' = "isPositive"
  /\ UNCHANGED <<this, arg, scales, ret, str, err>>

\* str = this.toString()
ToString ==
  /\ op = "construct"
  /\ str' = toString(this)
  /\ prev' = this
  /\ op' = "toString"
  /\ UNCHANGED <<this, arg, scales, ret, flag, err>>

\* this.fromString(t), t one of the input texts
FromString ==
  /\ op = "construct"
  /\ \E t \in InputStrings :
     /\ this' = fromString(this, t).size
     /\ err' = fromString(this, t).err
     /\ str' = t
     /\ prev' = this
     /\ op' = "fromString"
     /\ UNCHANGED <<arg, scales, ret, flag>>

\* ret.fromString(this.toString()): ret receives the parsed value
ReadBack ==
  /\ op = "toString"
  /\ ret' = fromString(ret, str).size
  /\ err' = fromString(ret, str).err
  /\ prev' = this
  /\ op' = "readBack"
  /\ UNCHANGED <<this, arg, scales, flag, str>>

Next ==
  \/ Scale
  \/ ScaleAgain
  \/ Equals
  \/ NotEquals
  \/ Add
  \/ Sub
  \/ SubBack
  \/ Union
  \/ IsZero
  \/ IsPositive
  \/ ToString
  \/ FromString
  \/ ReadBack

Spec == Init /\ [][Next]_vars

\* The caller restricted to one group of operations.
ScaleNext == Scale \/ ScaleAgain

SpecScale == Init /\ [][ScaleNext]_vars

CompareNext == Equals \/ NotEquals

SpecCompare == Init /\ [][CompareNext]_vars

ArithNext == Add \/ Sub \/ SubBack

SpecArith == Init /\ [][ArithNext]_vars

UnionNext == Union

SpecUnion == Init /\ [][UnionNext]_vars

PredicateNext == IsZero \/ IsPositive

SpecPredicate == Init /\ [][PredicateNext]_vars

TextNext == ToString \/ FromString \/ ReadBack

SpecText == Init /\ [][TextNext]_vars

TypeOK ==
  /\ this \in Sizes
  /\ ret \in Sizes
  /\ arg \in Sizes
  /\ flag \in BOOLEAN
  /\ err \in {"none", "ParseError"}

\* ---- values and relations used to state the properties ----

\* The non-negative double whose magnitude is n units.
OfUnits(n) == CHOOSE p \in Pats : PatVal[p] = n

OneD == OfUnits(UnitDen)

HalfD == OfUnits(UnitDen \div 2)

ThreeQuartersD == OfUnits((3 * UnitDen) \div 4)

OneAndHalfD == OfUnits((3 * UnitDen) \div 2)

NoNaN(s) == ~IsNaN(s.width) /\ ~IsNaN(s.height)

FiniteSize(s) == IsFinite(s.width) /\ IsFinite(s.height)

\* r >= x as extended real numbers (neither a NaN).
RealGe(r, x) == ~IsNaN(r) /\ ~IsNaN(x) /\ SVal(r) >= SVal(x)

\* x and y are the same extended real number (neither a NaN).
RealEq(x, y) == ~IsNaN(x) /\ ~IsNaN(y) /\ SVal(x) = SVal(y)

IsMaxOf(r, x, y) == r \in {x, y} /\ RealGe(r, x) /\ RealGe(r, y)

ExactlyZero(x) == ~IsNaN(x) /\ Pat(x) = 0

StrictlyPositive(x) == ~IsNaN(x) /\ ~Neg(x) /\ Pat(x) > 0

Abs(n) == IF n < 0 THEN 0 - n ELSE n

\* The magnitudes of the finite doubles, in units.
FiniteMags == {PatVal[p] : p \in 0 .. InfPat - 1}

\* The real sum of the finite x and y is a finite double: x + y is not rounded.
ExactSum(x, y) ==
  /\ IsFinite(x)
  /\ IsFinite(y)
  /\ Abs(SVal(x) + SVal(y)) \in FiniteMags

\* The real product of the finite x and y is a finite double: x * y is not
\* rounded, does not overflow and does not underflow.
ExactProduct(x, y) ==
  /\ IsFinite(x)
  /\ IsFinite(y)
  /\ (Mag(x) * Mag(y)) % UnitDen = 0
  /\ (Mag(x) * Mag(y)) \div UnitDen \in FiniteMags

\* x + y adds two finite non-zero values of the same sign and of comparable
\* magnitude (neither more than twice the other) to a finite sum: nothing
\* cancels in the sum and neither operand is absorbed by the other.
NonCancelling(x, y) ==
  /\ IsFinite(x)
  /\ IsFinite(y)
  /\ Mag(x) # 0
  /\ Mag(y) # 0
  /\ Neg(x) = Neg(y)
  /\ Mag(x) <= 2 * Mag(y)
  /\ Mag(y) <= 2 * Mag(x)
  /\ IsFinite(FAdd(x, y))

\* t is [-]digits or [-]digits.digits
IsNumeral(t) ==
  LET body == IF Len(t) > 0 /\ t[1] = "-" THEN Tail(t) ELSE t
  IN  \/ AllDigits(body)
      \/ \E i \in 1 .. Len(body) :
           /\ body[i] = "."
           /\ AllDigits(SubSeq(body, 1, i - 1))
           /\ AllDigits(SubSeq(body, i + 1, Len(body)))

\* t has the shape <numeral>x<numeral>
HasShape(t) ==
  \E i \in 1 .. Len(t) :
    /\ t[i] = "x"
    /\ IsNumeral(SubSeq(t, 1, i - 1))
    /\ IsNumeral(SubSeq(t, i + 1, Len(t)))

\* ---- C1 ----

\* C1 as stated: for all sizes a and b, a.unionWith(b) has on each axis the
\* maximum of the two operands' values on that axis, so it is at least as large
\* as both operands on each axis.
C1_UnionIsMaxForAll ==
  op = "unionWith" =>
    /\ IsMaxOf(ret.width, this.width, arg.width)
    /\ IsMaxOf(ret.height, this.height, arg.height)

\* C1 amended: for all sizes a and b none of whose fields is a NaN,
\* a.unionWith(b) has on each axis the maximum of the two operands' values on
\* that axis, each axis computed independently, and is at least as large as
\* both operands on each axis.
C1_UnionIsMax ==
  (op = "unionWith" /\ NoNaN(this) /\ NoNaN(arg)) =>
    /\ IsMaxOf(ret.width, this.width, arg.width)
    /\ IsMaxOf(ret.height, this.height, arg.height)

\* The width comes from the receiver and the height from the argument.
C1_Witness ==
  /\ op = "unionWith"
  /\ this = Size(OneD, HalfD)
  /\ arg = Size(HalfD, OneAndHalfD)
  /\ ret = Size(OneD, OneAndHalfD)

\* ---- C2 ----

\* C2 as stated: for every Size s, whatever its fields hold, s.isZero() is true
\* if and only if at least one of s.width, s.height is exactly zero.
C2_IsZeroIffAFieldIsZero ==
  op = "isZero" => (flag <=> (ExactlyZero(this.width) \/ ExactlyZero(this.height)))

\* C2 amended: s.isZero() is true if and only if both fields are finite and
\* either at least one of them is exactly zero or the product of the two
\* non-zero fields underflows to zero (its magnitude is at most half the
\* smallest subnormal); a zero field beside an infinite or NaN field gives false.
C2_IsZeroIffProductIsZero ==
  op = "isZero" =>
    (flag <=> /\ IsFinite(this.width)
              /\ IsFinite(this.height)
              /\ \/ Mag(this.width) = 0
                 \/ Mag(this.height) = 0
                 \/ 2 * Mag(this.width) * Mag(this.height) <= UnitDen)

\* Size(0, 1.5) is zero.
C2_Witness ==
  /\ op = "isZero"
  /\ this = Size(0, OneAndHalfD)
  /\ flag

\* ---- C3 ----

\* C3: for all sizes a and b, NaN fields included, a != b is the negation of
\* a == b, and a == b is true if and only if the widths are the same number and
\* the heights are the same number.
C3_NotEqualsNegatesEquals ==
  /\ op = "ne" => (flag <=> ~OpEq(this, arg))
  /\ op = "ne" =>
       (flag <=> ~(RealEq(this.width, arg.width) /\ RealEq(this.height, arg.height)))
  /\ op = "eq" =>
       (flag <=> (RealEq(this.width, arg.width) /\ RealEq(this.height, arg.height)))

\* A size with a NaN width is unequal to itself.
C3_Witness ==
  /\ op = "ne"
  /\ IsNaN(this.width)
  /\ this.height = OneD
  /\ arg = this
  /\ flag
  /\ ~OpEq(this, arg)

\* ---- C4 ----

C5_MalformedFails ==
  (op = "fromString" /\ ~HasShape(str)) => (err = "ParseError" /\ this = DefaultSize)

\* "100xabc" read into Size(1, 1.5).
C5_Witness ==
  /\ op = "fromString"
  /\ str = <<"1", "0", "0", "x", "a", "b", "c">>
  /\ prev = Size(OneD, OneAndHalfD)
  /\ this = DefaultSize
  /\ err = "ParseError"

\* ---- C6 ----

\* C6: s.isPositive() is true if and only if s.width > 0 and s.height > 0,
\* both strictly.
C6_IsPositiveIffBothPositive ==
  op = "isPositive" =>
    (flag <=> (StrictlyPositive(this.width) /\ StrictlyPositive(this.height)))

\* Size(-1, 1) is not positive.
C6_Witness ==
  /\ op = "isPositive"
  /\ this = Size(FNeg(OneD), OneD)
  /\ ~flag

\* ---- C7 ----

\* C7 as stated: for all sizes a and b, a.unionWith(b) == b.unionWith(a).
C7_UnionCommutesForAll ==
  op = "unionWith" => OpEq(ret, unionWith(arg, this))

\* C7 amended: for all sizes a and b none of whose fields is a NaN,
\* a.unionWith(b) == b.unionWith(a).
C7_UnionCommutes ==
  (op = "unionWith" /\ NoNaN(this) /\ NoNaN(arg)) => OpEq(ret, unionWith(arg, this))

\* Two different sizes, each larger on one axis.
C7_Witness ==
  /\ op = "unionWith"
  /\ this = Size(HalfD, OneD)
  /\ arg = Size(OneD, FNeg(OneD))
  /\ ret = Size(OneD, OneD)
  /\ unionWith(arg, this) = ret

\* ---- C8 ----

\* C8 as stated: for every Size s, s.unionWith(s) == s.
C8_UnionIdempotentForAll ==
  (op = "unionWith" /\ arg = this) => OpEq(ret, this)

\* C8 amended: for every Size s neither of whose fields is a NaN,
\* s.unionWith(s) == s.
C8_UnionIdempotent ==
  (op = "unionWith" /\ arg = this /\ NoNaN(this)) => OpEq(ret, this)

\* Size(1, 0.5) united with itself.
C8_Witness ==
  /\ op = "unionWith"
  /\ this = Size(OneD, HalfD)
  /\ arg = this
  /\ ret = this

\* ---- C9 ----

\* C9 as stated: for all sizes s1 and s2 with finite, non-cancelling values,
\* (s1 + s2) - s2 == s1.
C9_AddThenSubForNonCancelling ==
  ( /\ op = "addsub"
    /\ NonCancelling(this.width, arg.width)
    /\ NonCancelling(this.height, arg.height) ) => OpEq(ret, this)

\* C9 amended: s1 + s2 and s1 - s2 are the field-wise double sum and
\* difference, the operands are left unmodified, and for all sizes s1 and s2
\* with finite values whose field-wise real sums are exactly representable (the
\* additions are neither rounded nor overflow), s1 + s2 holds those real sums
\* and (s1 + s2) - s2 == s1.
C9_AddSubFieldwiseInverse ==
  /\ op = "add" =>
       /\ ret = Size(FAdd(this.width, arg.width), FAdd(this.height, arg.height))
       /\ ExactSum(this.width, arg.width) =>
            SVal(ret.width) = SVal(this.width) + SVal(arg.width)
       /\ ExactSum(this.height, arg.height) =>
            SVal(ret.height) = SVal(this.height) + SVal(arg.height)
       /\ this = prev
  /\ op = "sub" =>
       /\ ret = Size(FSub(this.width, arg.width), FSub(this.height, arg.height))
       /\ this = prev
  /\ ( /\ op = "addsub"
       /\ ExactSum(this.width, arg.width)
       /\ ExactSum(this.height, arg.height) ) =>
       (OpEq(ret, this) /\ this = prev)

\* (Size(0.25, -1) + Size(0.5, 1.5)) - Size(0.5, 1.5)
C9_Witness ==
  /\ op = "addsub"
  /\ this = Size(OfUnits(UnitDen \div 4), FNeg(OneD))
  /\ arg = Size(HalfD, OneAndHalfD)
  /\ ExactSum(this.width, arg.width)
  /\ ExactSum(this.height, arg.height)
  /\ ret = this

\* ---- C10 ----

\* C10 as stated: for every Size s and scalars k1 and k2,
\* (s * k1) * k2 == s * (k1 * k2).
C10_ScaleComposesForAll ==
  op = "scale2" => OpEq(ret, OpMul(this, FMul(scales[1], scales[2])))

\* C10 amended: s * k is the Size with both fields multiplied by k, and for
\* every Size s and scalars k1 and k2, all finite, for which s.width * k1,
\* s.height * k1 and k1 * k2 are exactly representable (not rounded, no
\* overflow, no underflow), (s * k1) * k2 == s * (k1 * k2).
C10_ScaleComposes ==
  /\ op = "scale" =>
       ret = Size(FMul(this.width, scales[1]), FMul(this.height, scales[1]))
  /\ ( /\ op = "scale2"
       /\ ExactProduct(this.width, scales[1])
       /\ ExactProduct(this.height, scales[1])
       /\ ExactProduct(scales[1], scales[2]) ) =>
       OpEq(ret, Size(FMul(this.width, FMul(scales[1], scales[2])),
                      FMul(this.height, FMul(scales[1], scales[2]))))

\* (Size(1, 0.5) * 1.5) * 0.5
C10_Witness ==
  /\ op = "scale2"
  /\ this = Size(OneD, HalfD)
  /\ scales = <<OneAndHalfD, HalfD>>
  /\ ExactProduct(this.width, scales[1])
  /\ ExactProduct(this.height, scales[1])
  /\ ExactProduct(scales[1], scales[2])
  /\ ret.width = ThreeQuartersD

====
